---- MODULE Spec2Model ----
(***************************************************************************)
(* A model of the todo service: the relational store (users, todos,       *)
(* categories) written by backend/app/crud.py, the HTTP handlers of        *)
(* backend/app/main.py that drive it, and the graph mirror written and     *)
(* queried by backend/app/neo4j_client.py.                                 *)
(*                                                                         *)
(* Every handler runs on a worker.  A handler that issues several          *)
(* statements against a store is split at the statements: each query,      *)
(* each commit and each session.run is one atomic step, and steps of two   *)
(* workers interleave.  Timestamps (created_at, updated_at) are left out.  *)
(***************************************************************************)
EXTENDS Integers, Sequences, FiniteSets, Bags, TLC

\* ------------------------------------------------------------------ values

\* SQL NULL / Python's None as the value of a column or property.  Every
\* column value is a string so that it can be compared with NULL: a Boolean
\* column holds "true", "false" or NULL.
NULL == "NULL"

\* Python's None where an ORM object or a request body is expected.
None == [id |-> 0]

\* The two request workers whose steps interleave.
Workers == {"w1", "w2"}

\* Bounds of the model: rows ever inserted into todos and into categories.
MaxTodos == 2
MaxCats == 1

\* schemas.UserCreate bodies sent to POST /register.  The third shares its
\* username with the first and its email with the second.
RegisterInputs ==
    { [username |-> "alice", email |-> "a@x", password |-> "pw1"],
      [username |-> "bob",   email |-> "b@x", password |-> "pw2"],
      [username |-> "alice", email |-> "b@x", password |-> "pw1"] }

\* schemas.TodoCreate bodies: a title, the other fields at their defaults.
TodoCreateInputs ==
    { [title |-> "X", description |-> NULL, priority |-> "medium", due_date |-> NULL] }

\* schemas.TodoUpdate bodies: the fields of the record are the fields set in
\* the request (pydantic's fields_set); every other field is unset.
TodoUpdateInputs ==
    { [completed |-> "true"],
      [completed |-> NULL],
      [title |-> "Z", due_date |-> "d2"],
      [title |-> NULL, priority |-> "low"] }

\* schemas.CategoryCreate bodies.
CategoryCreateInputs ==
    { [name |-> "Work", color |-> "#3B82F6"] }

\* The orders in which an INSERT into users can enter the unique indexes of
\* username and email.  It is the order in which the schema was created,
\* which the models do not fix; it is the same for every INSERT of a run.
UniqueOrders == { <<"username", "email">>, <<"email", "username">> }

\* The columns of a todos row that TodoUpdate can name.
TodoUpdateFields == {"title", "description", "completed", "priority", "due_date"}

\* ------------------------------------------------------------------- state

VARIABLES
    users,        \* the users table: its committed rows in the order of their commits
    todos,        \* the todos table: its committed rows in the order of their ids
    heap,         \* the ids of the todos rows in the order a scan meets them
    categories,   \* the categories table
    userSeq,      \* last id handed out by users.id
    todoSeq,      \* last id handed out by todos.id
    catSeq,       \* last id handed out by categories.id
    graph,        \* the graph mirror: nodes per label and edges per type
    wk,           \* per worker: the request it runs, its position, its response
    deleted,      \* ids of the todos whose DELETE has returned 200 (history)
    now,          \* the time, in units of the token lifetime's granularity
    tokens,       \* the bearer tokens issued so far, in the hands of clients
    uniqueOrder   \* the unique columns of users, in the order an INSERT enters
                  \* their indexes

vars == <<users, todos, categories, userSeq, todoSeq, catSeq, graph, wk, deleted,
          now, tokens, heap, uniqueOrder>>

\* ------------------------------------------------------------ sequences

Range(s) == { s[i] : i \in 1..Len(s) }

SelectSeqIdx(s, keep(_)) == { i \in 1..Len(s) : keep(s[i]) }

\* Mutant of DropAt: nothing is removed.
DropAt_none(s, idx) == s

\* The sequence s without the elements at the positions in idx.
RECURSIVE DropAt(_, _)
DropAt(s, idx) ==
    IF s = <<>> THEN <<>>
    ELSE LET n == Len(s)
             rest == DropAt(SubSeq(s, 1, n - 1), idx)
         IN IF n \in idx THEN rest ELSE Append(rest, s[n])

\* Query.first(): the first matching row, or None.
First(s, keep(_)) ==
    LET hits == SelectSeqIdx(s, keep)
    IN IF hits = {} THEN None
       ELSE s[CHOOSE i \in hits : \A j \in hits : i <= j]

\* ------------------------------------------------------------ graph mirror
\* A node is a record of its properties (a property never set is NULL); the
\* nodes of a label are a sequence, and a node's position is its identity.
\* The edges of a type are a bag of pairs <<position of the start node,
\* position of the end node>>: the graph store lets two nodes be joined by
\* several edges of one type.

EmptyGraph ==
    [users |-> <<>>, todos |-> <<>>, cats |-> <<>>,
     owns |-> EmptyBag, created |-> EmptyBag, belongs |-> EmptyBag]

\* MATCH (n:Label {id: $id}): the positions of the nodes with this id.
MatchNodes(nodes, id) == { i \in 1..Len(nodes) : nodes[i].id = id }

\* Mutant of MergeNodes: CREATE in place of MERGE.
MergeNodes_create(nodes, blank) == Append(nodes, blank)

\* MERGE (n:Label {id: $id}): the nodes matched, or one node created with
\* only its id when none matches.
MergeNodes(nodes, blank) ==
    IF MatchNodes(nodes, blank.id) = {} THEN Append(nodes, blank) ELSE nodes

\* SET n.p = v, ... on every node bound by the preceding MERGE.
SetNodes(nodes, id, node) ==
    [ i \in 1..Len(nodes) |-> IF nodes[i].id = id THEN node ELSE nodes[i] ]

\* Mutant of MergeEdges: no edge is merged.
MergeEdges_none(edges, pairs) == edges

\* MERGE (a)-[:TYPE]->(b) once per row <<a, b>> of the preceding MATCH: an
\* edge is created where the two nodes have none of this type.
MergeEdges(edges, pairs) ==
    edges (+) SetToBag({ p \in pairs : ~BagIn(p, edges) })

\* Neo4jClient.create_user_node
create_user_node(g, user_id, username, email) ==
    LET merged == MergeNodes(g.users, [id |-> user_id, username |-> NULL, email |-> NULL])
    IN [g EXCEPT !.users =
            SetNodes(merged, user_id,
                     [id |-> user_id, username |-> username, email |-> email])]

\* Mutant of create_todo_node: the MATCH of the user comes before the MERGE
\* of the todo, so nothing is merged when no User node matches.
create_todo_node_needs_user(g, todo_id, title, user_id) ==
    IF MatchNodes(g.users, user_id) = {} THEN g
    ELSE LET nodes == SetNodes(MergeNodes(g.todos, [id |-> todo_id, title |-> NULL]),
                               todo_id, [id |-> todo_id, title |-> title])
         IN [g EXCEPT !.todos = nodes,
                      !.owns = MergeEdges(g.owns, MatchNodes(g.users, user_id)
                                                    \X MatchNodes(nodes, todo_id))]

\* Neo4jClient.create_todo_node
create_todo_node(g, todo_id, title, user_id) ==
    LET merged == MergeNodes(g.todos, [id |-> todo_id, title |-> NULL])
        nodes  == SetNodes(merged, todo_id, [id |-> todo_id, title |-> title])
        rows   == MatchNodes(g.users, user_id) \X MatchNodes(nodes, todo_id)
    IN [g EXCEPT !.todos = nodes, !.owns = MergeEdges(g.owns, rows)]

\* Mutant of create_category_node: every Todo node the user owns is linked
\* to the category.
create_category_node_linking(g, category_id, name, user_id) ==
    LET nodes == SetNodes(MergeNodes(g.cats, [id |-> category_id, name |-> NULL]),
                          category_id, [id |-> category_id, name |-> name])
        mine  == { t \in 1..Len(g.todos) :
                     \E u \in MatchNodes(g.users, user_id) : BagIn(<<u, t>>, g.owns) }
    IN [g EXCEPT !.cats = nodes,
                 !.created = MergeEdges(g.created, MatchNodes(g.users, user_id)
                                                     \X MatchNodes(nodes, category_id)),
                 !.belongs = MergeEdges(g.belongs, mine \X MatchNodes(nodes, category_id))]

\* Neo4jClient.create_category_node
create_category_node(g, category_id, name, user_id) ==
    LET merged == MergeNodes(g.cats, [id |-> category_id, name |-> NULL])
        nodes  == SetNodes(merged, category_id, [id |-> category_id, name |-> name])
        rows   == MatchNodes(g.users, user_id) \X MatchNodes(nodes, category_id)
    IN [g EXCEPT !.cats = nodes, !.created = MergeEdges(g.created, rows)]

\* Neo4jClient.link_todo_to_category
link_todo_to_category(g, todo_id, category_id) ==
    LET rows == MatchNodes(g.todos, todo_id) \X MatchNodes(g.cats, category_id)
    IN [g EXCEPT !.belongs = MergeEdges(g.belongs, rows)]

\* Mutant of RecRows: the WHERE clause is missing.
RecRows_no_where(g, user_id) ==
    { r \in (1..Len(g.users)) \X (1..Len(g.todos)) \X (1..Len(g.cats)) \X
            (1..Len(g.todos)) \X (1..Len(g.users)) :
        /\ g.users[r[1]].id = user_id
        /\ BagIn(<<r[1], r[2]>>, g.owns)
        /\ BagIn(<<r[2], r[3]>>, g.belongs)
        /\ BagIn(<<r[4], r[3]>>, g.belongs)
        /\ BagIn(<<r[5], r[4]>>, g.owns) }

\* The rows of get_todo_recommendations' two MATCH clauses: a row binds the
\* OWNS edge u->t, the BELONGS_TO edge t->c, the BELONGS_TO edge
\* other_todo->c and the OWNS edge other_user->other_todo, and passes
\* WHERE other_user.id <> $user_id.  A row is <<u, t, c, other_todo,
\* other_user>>, the positions of its nodes.
RecRows(g, user_id) ==
    { r \in (1..Len(g.users)) \X (1..Len(g.todos)) \X (1..Len(g.cats)) \X
            (1..Len(g.todos)) \X (1..Len(g.users)) :
        /\ g.users[r[1]].id = user_id
        /\ BagIn(<<r[1], r[2]>>, g.owns)
        /\ BagIn(<<r[2], r[3]>>, g.belongs)
        /\ BagIn(<<r[4], r[3]>>, g.belongs)
        /\ BagIn(<<r[5], r[4]>>, g.owns)
        /\ g.users[r[5]].id # user_id }

\* How many times the query yields row r: once per choice of edges between
\* the nodes of the row.
RowCopies(g, r) ==
    CopiesIn(<<r[1], r[2]>>, g.owns) * CopiesIn(<<r[2], r[3]>>, g.belongs)
      * CopiesIn(<<r[4], r[3]>>, g.belongs) * CopiesIn(<<r[5], r[4]>>, g.owns)

\* RETURN other_todo.title as recommendation, c.name as category
RecEntry(g, r) ==
    [recommendation |-> g.todos[r[4]].title, category |-> g.cats[r[3]].name]

\* The LIMIT of the recommendation query.
RecLimit == 5

RECURSIVE SumCopies(_, _)
SumCopies(g, rows) ==
    IF rows = {} THEN 0
    ELSE LET r == CHOOSE x \in rows : TRUE
         IN RowCopies(g, r) + SumCopies(g, rows \ {r})

\* The entries the query yields before LIMIT, with their multiplicities.
RecAll(g, user_id) ==
    LET rows == RecRows(g, user_id)
        entries == { RecEntry(g, r) : r \in rows }
    IN [ e \in entries |-> SumCopies(g, { r \in rows : RecEntry(g, r) = e }) ]

\* Neo4jClient.get_todo_recommendations: the query returns its rows in an
\* order the graph engine chooses, cut by LIMIT; the possible results are
\* the bags of RecLimit entries (all of them when there are fewer rows).
get_todo_recommendations(g, user_id) ==
    LET all == RecAll(g, user_id)
        n   == BagCardinality(all)
        k   == IF n < RecLimit THEN n ELSE RecLimit
    IN { b \in SubBag(all) : BagCardinality(b) = k }

\* ----------------------------------------------------------- credentials
\* auth.get_password_hash / auth.verify_password: a one-way digest.
get_password_hash(password) == <<"hash", password>>

verify_password(plain, digest) == digest = get_password_hash(plain)

\* The lifetime of a token (auth.ACCESS_TOKEN_EXPIRE_MINUTES), in ticks.
TokenTTL == 2

\* auth.create_access_token: the claims signed with the process's key.
create_access_token(sub, issued_at, expires_delta) ==
    [sub |-> sub, exp |-> issued_at + expires_delta, signed |-> TRUE]

\* Decoding a bearer token at time t: its subject, or NULL when the
\* signature does not verify or the expiry has passed.
TokenSubject(token, t) ==
    IF token.signed /\ t <= token.exp THEN token.sub ELSE NULL

\* -------------------------------------------------------- relational store

\* crud.get_user_by_username
get_user_by_username(rows, username) ==
    First(rows, LAMBDA u : u.username = username)

\* Mutant of get_user_by_email: the email lookup finds nothing.
get_user_by_email_blind(rows, email) == None

\* crud.get_user_by_email
get_user_by_email(rows, email) ==
    First(rows, LAMBDA u : u.email = email)

\* Mutant of UsersUnique: the column has no unique index.
UsersUnique_absent(rows, column, value) == TRUE

\* The unique index of users.username or of users.email: whether none of
\* these rows holds this value in the column.
UsersUnique(rows, column, value) ==
    \A i \in 1..Len(rows) : rows[i][column] # value

\* models.User as crud.create_user builds it, with the id and the column
\* default (is_active) the INSERT fills in.
NewUser(id, user) ==
    [id |-> id, username |-> user.username, email |-> user.email,
     hashed_password |-> get_password_hash(user.password), is_active |-> TRUE]

\* Mutant of NewTodo: the owner is the first user, whoever is authenticated.
NewTodo_first_user(id, todo, user_id) ==
    [id |-> id, title |-> todo.title, description |-> todo.description,
     completed |-> "false", priority |-> todo.priority, due_date |-> todo.due_date,
     user_id |-> 1]

\* models.Todo(**todo.dict(), user_id=user_id) with the id and the column
\* default (completed) the INSERT fills in.
NewTodo(id, todo, user_id) ==
    [id |-> id, title |-> todo.title, description |-> todo.description,
     completed |-> "false", priority |-> todo.priority, due_date |-> todo.due_date,
     user_id |-> user_id]

\* models.Category(**category.dict(), user_id=user_id)
NewCategory(id, category, user_id) ==
    [id |-> id, name |-> category.name, color |-> category.color, user_id |-> user_id]

\* Mutant of get_todo: the query does not filter on the owner.
get_todo_any_owner(rows, todo_id, user_id) ==
    First(rows, LAMBDA t : t.id = todo_id)

\* crud.get_todo, and the same query in update_todo and delete_todo:
\* filter(Todo.id == todo_id, Todo.user_id == user_id).first()
get_todo(rows, todo_id, user_id) ==
    First(rows, LAMBDA t : t.id = todo_id /\ t.user_id = user_id)

\* The positions of the rows with this primary key.
RowsWithId(rows, id) == { i \in 1..Len(rows) : rows[i].id = id }

\* The rows of the todos table as a query without ORDER BY returns them: in
\* the order of the heap, passing over the row versions no committed
\* transaction has made visible.
Scan(rows, order) ==
    LET visible == SelectSeq(order, LAMBDA id : RowsWithId(rows, id) # {})
    IN [ i \in 1..Len(visible) |->
            rows[CHOOSE j \in 1..Len(rows) : rows[j].id = visible[i]] ]

\* The heap without the row versions of these ids.
Vacate(order, ids) == SelectSeq(order, LAMBDA id : id \notin ids)

\* The heap after an UPDATE of the row id: the new row version is met where
\* the old one was (moved = FALSE) or after every other row (moved = TRUE).
Rewrite(order, id, moved) ==
    IF moved THEN Append(Vacate(order, {id}), id) ELSE order

\* crud.get_todos: filter(user_id).offset(skip).limit(limit).all()
get_todos(rows, user_id, skip, limit) ==
    LET mine == SelectSeq(rows, LAMBDA t : t.user_id = user_id)
        from == skip + 1
        to   == IF skip + limit < Len(mine) THEN skip + limit ELSE Len(mine)
    IN SubSeq(mine, from, to)

\* The table after the COMMIT of an inserted row: the row is met where its
\* INSERT wrote it, before the rows inserted after it.
Publish(rows, row) ==
    SelectSeq(rows, LAMBDA r : r.id < row.id) \o <<row>>
        \o SelectSeq(rows, LAMBDA r : r.id > row.id)

\* crud.get_categories
get_categories(rows, user_id) ==
    SelectSeq(rows, LAMBDA c : c.user_id = user_id)

\* What the session has to write for update_todo's setattr loop: the fields
\* set in the request whose value differs from the one loaded (an attribute
\* set to the value it already has is no change to the unit of work).
DirtyFields(loaded, todo_update) ==
    { f \in DOMAIN todo_update : todo_update[f] # loaded[f] }

\* Mutant of UpdateRows: the UPDATE has no WHERE clause.
UpdateRows_all(rows, id, todo_update, dirty) ==
    [ i \in 1..Len(rows) |->
        [ f \in DOMAIN rows[i] |->
            IF f \in dirty THEN todo_update[f] ELSE rows[i][f] ] ]

\* UPDATE todos SET <dirty fields> WHERE id = :id, on the rows it matches.
UpdateRows(rows, id, todo_update, dirty) ==
    [ i \in 1..Len(rows) |->
        IF rows[i].id = id
        THEN [ f \in DOMAIN rows[i] |->
                 IF f \in dirty THEN todo_update[f] ELSE rows[i][f] ]
        ELSE rows[i] ]

\* todos.title is NOT NULL: whether the UPDATE passes the constraint.
TodoNotNull(todo_update, dirty) ==
    ~("title" \in dirty /\ todo_update["title"] = NULL)

\* ----------------------------------------------------------------- workers
\* wk[w]: op, the handler the worker runs (or ran last); pc, "idle" before
\* its first request, "done" once the response of op is out, else the step
\* the handler is at; in, the request body; id, the path parameter; cur, the
\* id of the authenticated user; obj, the ORM object the handler holds;
\* seen, the number of users rows when the request arrived; status and body,
\* the response.

IdleWorker ==
    [op |-> "none", pc |-> "idle", in |-> None, id |-> 0, cur |-> 0,
     obj |-> None, seen |-> 0, status |-> 0, body |-> None]

Free(w) == wk[w].pc \in {"idle", "done"}

\* A request of handler op arriving at a free worker.
Request(op, in, id, cur) ==
    [op |-> op, pc |-> "start", in |-> in, id |-> id, cur |-> cur,
     obj |-> None, seen |-> Len(users), status |-> 0, body |-> None]

\* The handler moves on to step pc holding obj.
Goto(r, pc, obj) == [r EXCEPT !.pc = pc, !.obj = obj]

\* The handler returns body: 200.
Return(r, body) ==
    [r EXCEPT !.pc = "done", !.obj = None, !.status = 200, !.body = body]

\* raise HTTPException(status_code, detail)
Raise(r, status_code, detail) ==
    [r EXCEPT !.pc = "done", !.obj = None, !.status = status_code,
              !.body = [detail |-> detail]]

\* An exception no handler catches: the framework answers 500.
ServerError(r) == Raise(r, 500, "Internal Server Error")

\* schemas.Todo, the response model of the todo routes: title and priority
\* are str and completed is bool, so a row with NULL in one of them does not
\* validate.
ValidTodo(row) == row.title # NULL /\ row.priority # NULL /\ row.completed # NULL

\* The handler returns these todos rows through response_model: 200 with the
\* body when every row validates, else ResponseValidationError, which the
\* framework answers with 500.
Respond(r, rows, body) ==
    IF \A i \in 1..Len(rows) : ValidTodo(rows[i]) THEN Return(r, body) ELSE ServerError(r)

\* Session.refresh(obj): the handler goes on to step pc holding the row of
\* obj's primary key as the table has it now; InvalidRequestError, which
\* nothing catches, when the table has no such row.
Reload(r, rows, pc) ==
    IF RowsWithId(rows, r.obj.id) = {} THEN ServerError(r)
    ELSE Goto(r, pc, rows[CHOOSE i \in RowsWithId(rows, r.obj.id) : TRUE])

\* The users a request can be authenticated as (auth.get_current_active_user
\* resolves a valid bearer token to its active user).
CurrentUsers == { users[i].id : i \in { j \in 1..Len(users) : users[j].is_active } }

\* schemas.User, the response model of /register: no password digest.
UserOut(u) ==
    [id |-> u.id, username |-> u.username, email |-> u.email, is_active |-> u.is_active]

Init ==
    /\ users = <<>>
    /\ todos = <<>>
    /\ categories = <<>>
    /\ userSeq = 0
    /\ todoSeq = 0
    /\ catSeq = 0
    /\ graph = EmptyGraph
    /\ wk = [w \in Workers |-> IdleWorker]
    /\ deleted = {}
    /\ heap = <<>>
    /\ uniqueOrder \in UniqueOrders
    /\ now = 0
    /\ tokens = {}

\* ---------------------------------------------------------- POST /register

\* main.register, lines 34-36: the username lookup.
Register(w, user) ==
    /\ Free(w)
    /\ LET r == Request("register", user, 0, 0)
       IN wk' = [wk EXCEPT ![w] =
            IF get_user_by_username(users, user.username) # None
            THEN Raise(r, 400, "Username already registered")
            ELSE Goto(r, "check_email", None)]
    /\ UNCHANGED <<users, todos, categories, userSeq, todoSeq, catSeq, graph, deleted,
                   now, tokens, heap, uniqueOrder>>

\* main.register, lines 38-40: the email lookup.
RegisterCheckEmail(w) ==
    /\ wk[w].op = "register" /\ wk[w].pc = "check_email"
    /\ wk' = [wk EXCEPT ![w] =
            IF get_user_by_email(users, wk[w].in.email) # None
            THEN Raise(wk[w], 400, "Email already registered")
            ELSE Goto(wk[w], "insert", None)]
    /\ UNCHANGED <<users, todos, categories, userSeq, todoSeq, catSeq, graph, deleted,
                   now, tokens, heap, uniqueOrder>>

\* crud.create_user, lines 15-22, the start of the INSERT that db.commit()
\* flushes: the statement takes the next value of the sequence of users.id,
\* which stays taken whatever becomes of the statement, and writes the row,
\* visible to no other session, before it enters the unique indexes.
RegisterInsert(w) ==
    /\ wk[w].op = "register" /\ wk[w].pc = "insert"
    /\ userSeq' = userSeq + 1
    /\ wk' = [wk EXCEPT ![w] = Goto(wk[w], "index1", NewUser(userSeq + 1, wk[w].in))]
    /\ UNCHANGED <<users, todos, categories, todoSeq, catSeq, graph, deleted, now, tokens,
                   heap, uniqueOrder>>

\* The unique index the INSERT of a register at this step is about to enter.
IndexAt(pc) == IF pc = "index1" THEN uniqueOrder[1] ELSE uniqueOrder[2]

\* Whether the uncommitted row of a register on another worker is in the
\* unique index of this column with this value: that register has entered
\* the index and its transaction has not ended.
HeldUncommitted(w, column, value) ==
    \E v \in Workers \ {w} :
        /\ wk[v].op = "register"
        /\ \/ wk[v].pc = "commit"
           \/ wk[v].pc = "index2" /\ column = uniqueOrder[1]
        /\ ~UsersUnique(<<wk[v].obj>>, column, value)

\* Mutant of RegisterUnique: a register whose INSERT is rejected goes on to
\* its graph write with the row it built.
RegisterUnique_uncommitted(w) ==
    /\ wk[w].op = "register" /\ wk[w].pc \in {"index1", "index2"}
    /\ LET column == IndexAt(wk[w].pc)
           value  == wk[w].obj[column]
       IN IF ~UsersUnique(users, column, value)
          THEN wk' = [wk EXCEPT ![w] = Goto(wk[w], "propagate", wk[w].obj)]
          ELSE /\ ~HeldUncommitted(w, column, value)
               /\ wk' = [wk EXCEPT ![w] =
                     Goto(wk[w], IF wk[w].pc = "index1" THEN "index2" ELSE "commit",
                          wk[w].obj)]
    /\ UNCHANGED <<users, todos, categories, userSeq, todoSeq, catSeq, graph, deleted,
                   now, tokens, heap, uniqueOrder>>

\* crud.create_user, line 22, the INSERT entering one unique index of users,
\* the first and then the second.  A committed row with the value makes the
\* statement raise IntegrityError at once, which nothing catches; an
\* uncommitted row with the value makes it wait until the transaction of
\* that row has ended; else the row enters the index.
RegisterUnique(w) ==
    /\ wk[w].op = "register" /\ wk[w].pc \in {"index1", "index2"}
    /\ LET column == IndexAt(wk[w].pc)
           value  == wk[w].obj[column]
       IN IF ~UsersUnique(users, column, value)
          THEN wk' = [wk EXCEPT ![w] = ServerError(wk[w])]
          ELSE /\ ~HeldUncommitted(w, column, value)
               /\ wk' = [wk EXCEPT ![w] =
                     Goto(wk[w], IF wk[w].pc = "index1" THEN "index2" ELSE "commit",
                          wk[w].obj)]
    /\ UNCHANGED <<users, todos, categories, userSeq, todoSeq, catSeq, graph, deleted,
                   now, tokens, heap, uniqueOrder>>

\* crud.create_user, line 22: the COMMIT that db.commit() sends after the
\* INSERT makes the row visible.
RegisterCommit(w) ==
    /\ wk[w].op = "register" /\ wk[w].pc = "commit"
    /\ users' = Append(users, wk[w].obj)
    /\ wk' = [wk EXCEPT ![w] = Goto(wk[w], "refresh", wk[w].obj)]
    /\ UNCHANGED <<todos, categories, userSeq, todoSeq, catSeq, graph, deleted, now,
                   tokens, heap, uniqueOrder>>

\* crud.create_user, line 23: refresh reloads the row in a new transaction.
RegisterRefresh(w) ==
    /\ wk[w].op = "register" /\ wk[w].pc = "refresh"
    /\ wk' = [wk EXCEPT ![w] = Reload(wk[w], users, "propagate")]
    /\ UNCHANGED <<users, todos, categories, userSeq, todoSeq, catSeq, graph, deleted,
                   now, tokens, heap, uniqueOrder>>

\* crud.create_user, lines 26-28: the graph write, then the return.  The
\* session.run either succeeds or raises (the graph store is unreachable);
\* nothing catches what it raises.
RegisterPropagate(w, ok) ==
    /\ wk[w].op = "register" /\ wk[w].pc = "propagate"
    /\ IF ok
       THEN /\ graph' = create_user_node(graph, wk[w].obj.id, wk[w].obj.username,
                                         wk[w].obj.email)
            /\ wk' = [wk EXCEPT ![w] = Return(wk[w], UserOut(wk[w].obj))]
       ELSE /\ graph' = graph
            /\ wk' = [wk EXCEPT ![w] = ServerError(wk[w])]
    /\ UNCHANGED <<users, todos, categories, userSeq, todoSeq, catSeq, deleted, now,
                   tokens, heap, uniqueOrder>>

\* ------------------------------------------------------------------- todos

\* main.create_todo with crud.create_todo, lines 37-39, up to the INSERT
\* that db.commit() flushes.  The INSERT takes the next id and writes the row
\* to the heap; the row is not visible to other sessions yet.
CreateTodo(w, cur, todo) ==
    /\ Free(w)
    /\ todoSeq < MaxTodos
    /\ LET row == NewTodo(todoSeq + 1, todo, cur)
       IN /\ heap' = Append(heap, row.id)
          /\ todoSeq' = todoSeq + 1
          /\ wk' = [wk EXCEPT ![w] = Goto(Request("create_todo", todo, 0, cur),
                                          "commit", row)]
    /\ UNCHANGED <<users, todos, categories, userSeq, catSeq, graph, deleted, now,
                   tokens, uniqueOrder>>

\* crud.create_todo, line 39: the COMMIT that db.commit() sends after the
\* INSERT makes the row visible.
CreateTodoCommit(w) ==
    /\ wk[w].op = "create_todo" /\ wk[w].pc = "commit"
    /\ todos' = Publish(todos, wk[w].obj)
    /\ wk' = [wk EXCEPT ![w] = Goto(wk[w], "refresh", wk[w].obj)]
    /\ UNCHANGED <<users, categories, userSeq, todoSeq, catSeq, graph, deleted, now,
                   tokens, heap, uniqueOrder>>

\* crud.create_todo, line 40: refresh reloads the row in a new transaction;
\* the row may have been updated or deleted since the commit.
CreateTodoRefresh(w) ==
    /\ wk[w].op = "create_todo" /\ wk[w].pc = "refresh"
    /\ wk' = [wk EXCEPT ![w] = Reload(wk[w], todos, "propagate")]
    /\ UNCHANGED <<users, todos, categories, userSeq, todoSeq, catSeq, graph, deleted,
                   now, tokens, heap, uniqueOrder>>

\* Mutant of CreateTodoPropagate: the handler returns without its graph write.
CreateTodoPropagate_skip(w, ok) ==
    /\ wk[w].op = "create_todo" /\ wk[w].pc = "propagate"
    /\ wk' = [wk EXCEPT ![w] = Respond(wk[w], <<wk[w].obj>>, wk[w].obj)]
    /\ UNCHANGED <<users, todos, categories, userSeq, todoSeq, catSeq, graph, deleted,
                   now, tokens, heap, uniqueOrder>>

\* crud.create_todo, lines 43-45: the graph write, then the return.
CreateTodoPropagate(w, ok) ==
    /\ wk[w].op = "create_todo" /\ wk[w].pc = "propagate"
    /\ IF ok
       THEN /\ graph' = create_todo_node(graph, wk[w].obj.id, wk[w].obj.title, wk[w].cur)
            /\ wk' = [wk EXCEPT ![w] = Respond(wk[w], <<wk[w].obj>>, wk[w].obj)]
       ELSE /\ graph' = graph
            /\ wk' = [wk EXCEPT ![w] = ServerError(wk[w])]
    /\ UNCHANGED <<users, todos, categories, userSeq, todoSeq, catSeq, deleted, now,
                   tokens, heap, uniqueOrder>>

\* main.read_todos with crud.get_todos
ReadTodos(w, cur, skip, limit) ==
    /\ Free(w)
    /\ LET r == Request("read_todos", [skip |-> skip, limit |-> limit], 0, cur)
           rows == get_todos(Scan(todos, heap), cur, skip, limit)
       IN wk' = [wk EXCEPT ![w] = Respond(r, rows, [items |-> rows])]
    /\ UNCHANGED <<users, todos, categories, userSeq, todoSeq, catSeq, graph, deleted,
                   now, tokens, heap, uniqueOrder>>

\* main.read_todo with crud.get_todo
ReadTodo(w, cur, todo_id) ==
    /\ Free(w)
    /\ LET r == Request("read_todo", None, todo_id, cur)
           db_todo == get_todo(todos, todo_id, cur)
       IN wk' = [wk EXCEPT ![w] =
            IF db_todo = None THEN Raise(r, 404, "Todo not found")
            ELSE Respond(r, <<db_todo>>, db_todo)]
    /\ UNCHANGED <<users, todos, categories, userSeq, todoSeq, catSeq, graph, deleted,
                   now, tokens, heap, uniqueOrder>>

\* main.update_todo with crud.update_todo, lines 48-52: the query and the
\* setattr loop on the object loaded.
UpdateTodo(w, cur, todo_id, todo_update) ==
    /\ Free(w)
    /\ LET r == Request("update_todo", todo_update, todo_id, cur)
           db_todo == get_todo(todos, todo_id, cur)
       IN wk' = [wk EXCEPT ![w] =
            IF db_todo = None THEN Raise(r, 404, "Todo not found")
            ELSE Goto(r, "update", db_todo)]
    /\ UNCHANGED <<users, todos, categories, userSeq, todoSeq, catSeq, graph, deleted,
                   now, tokens, heap, uniqueOrder>>

\* Whether the uncommitted UPDATE or DELETE of another worker holds the lock
\* of the todos row with this id.
RowLocked(w, id) ==
    \E v \in Workers \ {w} :
        /\ wk[v].pc = "commit"
        /\ \/ wk[v].op = "update_todo" /\ DirtyFields(wk[v].obj, wk[v].in) # {}
           \/ wk[v].op = "delete_todo" /\ RowsWithId(todos, wk[v].obj.id) # {}
        /\ wk[v].obj.id = id

\* crud.update_todo, lines 50-53: the setattr loop, and the UPDATE of the
\* changed fields that db.commit() flushes when there are any.  The UPDATE
\* raises when it matches no row (StaleDataError) or breaks NOT NULL
\* (IntegrityError); it waits while another transaction holds the lock of
\* the row, and then holds it.
UpdateTodoFlush(w) ==
    /\ wk[w].op = "update_todo" /\ wk[w].pc = "update"
    /\ LET id    == wk[w].obj.id
           dirty == DirtyFields(wk[w].obj, wk[w].in)
       IN IF dirty = {}
          THEN wk' = [wk EXCEPT ![w] = Goto(wk[w], "commit", wk[w].obj)]
          ELSE IF RowsWithId(todos, id) = {} \/ ~TodoNotNull(wk[w].in, dirty)
          THEN wk' = [wk EXCEPT ![w] = ServerError(wk[w])]
          ELSE /\ ~RowLocked(w, id)
               /\ wk' = [wk EXCEPT ![w] = Goto(wk[w], "commit", wk[w].obj)]
    /\ UNCHANGED <<users, todos, categories, userSeq, todoSeq, catSeq, graph, deleted,
                   now, tokens, heap, uniqueOrder>>

\* crud.update_todo, line 53: the COMMIT that db.commit() sends makes the
\* new version of the row visible; a later scan may meet it at another place
\* of the heap.
UpdateTodoCommit(w) ==
    /\ wk[w].op = "update_todo" /\ wk[w].pc = "commit"
    /\ LET id    == wk[w].obj.id
           dirty == DirtyFields(wk[w].obj, wk[w].in)
       IN /\ todos' = UpdateRows(todos, id, wk[w].in, dirty)
          /\ \E moved \in { m \in BOOLEAN : m => dirty # {} } :
                heap' = Rewrite(heap, id, moved)
          /\ wk' = [wk EXCEPT ![w] = Goto(wk[w], "refresh", wk[w].obj)]
    /\ UNCHANGED <<users, categories, userSeq, todoSeq, catSeq, graph, deleted, now,
                   tokens, uniqueOrder>>

\* crud.update_todo, lines 54-55: refresh reloads the row in a new
\* transaction, as it is by then, and main.update_todo returns it through
\* its response model.
UpdateTodoRefresh(w) ==
    /\ wk[w].op = "update_todo" /\ wk[w].pc = "refresh"
    /\ LET found == RowsWithId(todos, wk[w].obj.id)
       IN wk' = [wk EXCEPT ![w] =
            IF found = {} THEN ServerError(wk[w])
            ELSE Respond(wk[w], <<todos[CHOOSE i \in found : TRUE]>>,
                         todos[CHOOSE i \in found : TRUE])]
    /\ UNCHANGED <<users, todos, categories, userSeq, todoSeq, catSeq, graph, deleted,
                   now, tokens, heap, uniqueOrder>>

\* main.delete_todo with crud.delete_todo, line 58: the query.
DeleteTodo(w, cur, todo_id) ==
    /\ Free(w)
    /\ LET r == Request("delete_todo", None, todo_id, cur)
           db_todo == get_todo(todos, todo_id, cur)
       IN wk' = [wk EXCEPT ![w] =
            IF db_todo = None THEN Raise(r, 404, "Todo not found")
            ELSE Goto(r, "delete", db_todo)]
    /\ UNCHANGED <<users, todos, categories, userSeq, todoSeq, catSeq, graph, deleted,
                   now, tokens, heap, uniqueOrder>>

\* crud.delete_todo, lines 60-61: the DELETE that db.commit() flushes.  It
\* waits while another transaction holds the lock of the row, and then holds
\* it; a DELETE that matches no row (the row went meanwhile) is not an error.
DeleteTodoFlush(w) ==
    /\ wk[w].op = "delete_todo" /\ wk[w].pc = "delete"
    /\ RowsWithId(todos, wk[w].obj.id) = {} \/ ~RowLocked(w, wk[w].obj.id)
    /\ wk' = [wk EXCEPT ![w] = Goto(wk[w], "commit", wk[w].obj)]
    /\ UNCHANGED <<users, todos, categories, userSeq, todoSeq, catSeq, graph, deleted,
                   now, tokens, heap, uniqueOrder>>

\* Mutant of DeleteTodoCommit: the delete cascades to the OWNS edges of the
\* Todo node.
DeleteTodoCommit_cascade(w) ==
    /\ wk[w].op = "delete_todo" /\ wk[w].pc = "commit"
    /\ todos' = DropAt(todos, RowsWithId(todos, wk[w].obj.id))
    /\ heap' = Vacate(heap, {wk[w].obj.id})
    /\ deleted' = deleted \cup {wk[w].obj.id}
    /\ graph' = [graph EXCEPT !.owns =
                    graph.owns (-) SetToBag({ p \in DOMAIN graph.owns :
                        p[2] \in MatchNodes(graph.todos, wk[w].obj.id) })]
    /\ wk' = [wk EXCEPT ![w] = Return(wk[w], [message |-> "Todo deleted successfully"])]
    /\ UNCHANGED <<users, categories, userSeq, todoSeq, catSeq, now, tokens, uniqueOrder>>

\* crud.delete_todo, lines 61-62: the COMMIT that db.commit() sends makes
\* the row gone for every session, and the handler returns.
DeleteTodoCommit(w) ==
    /\ wk[w].op = "delete_todo" /\ wk[w].pc = "commit"
    /\ todos' = DropAt(todos, RowsWithId(todos, wk[w].obj.id))
    /\ heap' = Vacate(heap, {wk[w].obj.id})
    /\ deleted' = deleted \cup {wk[w].obj.id}
    /\ wk' = [wk EXCEPT ![w] = Return(wk[w], [message |-> "Todo deleted successfully"])]
    /\ UNCHANGED <<users, categories, userSeq, todoSeq, catSeq, graph, now, tokens, uniqueOrder>>

\* -------------------------------------------------------------- categories

\* main.create_category with crud.create_category, lines 68-70, up to the
\* INSERT that db.commit() flushes.  The INSERT takes the next id; the row is
\* not visible to other sessions yet.
CreateCategory(w, cur, category) ==
    /\ Free(w)
    /\ catSeq < MaxCats
    /\ catSeq' = catSeq + 1
    /\ wk' = [wk EXCEPT ![w] = Goto(Request("create_category", category, 0, cur),
                                    "commit", NewCategory(catSeq + 1, category, cur))]
    /\ UNCHANGED <<users, todos, categories, userSeq, todoSeq, graph, deleted, now,
                   tokens, heap, uniqueOrder>>

\* crud.create_category, line 70: the COMMIT that db.commit() sends after the
\* INSERT makes the row visible.
CreateCategoryCommit(w) ==
    /\ wk[w].op = "create_category" /\ wk[w].pc = "commit"
    /\ categories' = Publish(categories, wk[w].obj)
    /\ wk' = [wk EXCEPT ![w] = Goto(wk[w], "refresh", wk[w].obj)]
    /\ UNCHANGED <<users, todos, userSeq, todoSeq, catSeq, graph, deleted, now, tokens,
                   heap, uniqueOrder>>

\* crud.create_category, line 71: refresh reloads the row in a new
\* transaction.
CreateCategoryRefresh(w) ==
    /\ wk[w].op = "create_category" /\ wk[w].pc = "refresh"
    /\ wk' = [wk EXCEPT ![w] = Reload(wk[w], categories, "propagate")]
    /\ UNCHANGED <<users, todos, categories, userSeq, todoSeq, catSeq, graph, deleted,
                   now, tokens, heap, uniqueOrder>>

\* crud.create_category, lines 74-76: the graph write, then the return.
CreateCategoryPropagate(w, ok) ==
    /\ wk[w].op = "create_category" /\ wk[w].pc = "propagate"
    /\ IF ok
       THEN /\ graph' = create_category_node(graph, wk[w].obj.id, wk[w].obj.name, wk[w].cur)
            /\ wk' = [wk EXCEPT ![w] = Return(wk[w], wk[w].obj)]
       ELSE /\ graph' = graph
            /\ wk' = [wk EXCEPT ![w] = ServerError(wk[w])]
    /\ UNCHANGED <<users, todos, categories, userSeq, todoSeq, catSeq, deleted, now,
                   tokens, heap, uniqueOrder>>

\* main.read_categories with crud.get_categories
ReadCategories(w, cur) ==
    /\ Free(w)
    /\ wk' = [wk EXCEPT ![w] =
            Return(Request("read_categories", None, 0, cur),
                   [items |-> get_categories(categories, cur)])]
    /\ UNCHANGED <<users, todos, categories, userSeq, todoSeq, catSeq, graph, deleted,
                   now, tokens, heap, uniqueOrder>>

\* main.get_recommendations
GetRecommendations(w, cur) ==
    /\ Free(w)
    /\ \E recs \in get_todo_recommendations(graph, cur) :
        wk' = [wk EXCEPT ![w] =
            Return(Request("recommendations", None, 0, cur), [recommendations |-> recs])]
    /\ UNCHANGED <<users, todos, categories, userSeq, todoSeq, catSeq, graph, deleted,
                   now, tokens, heap, uniqueOrder>>


\* ------------------------------------------------------------ POST /token

\* auth.authenticate_user: the user with this username when the password
\* verifies against the digest stored, else None.
authenticate_user(rows, username, password) ==
    LET user == get_user_by_username(rows, username)
    IN IF user = None THEN None
       ELSE IF verify_password(password, user.hashed_password) THEN user ELSE None

\* Mutant of Login: the check of authenticate_user's result is missing, and
\* the token is made for the username of the form.
Login_unchecked(w, username, password) ==
    /\ Free(w)
    /\ LET r == Request("login", [username |-> username, password |-> password], 0, 0)
           token == create_access_token(username, now, TokenTTL)
       IN /\ tokens' = tokens \cup {token}
          /\ wk' = [wk EXCEPT ![w] =
                Return(r, [access_token |-> token, token_type |-> "bearer"])]
    /\ UNCHANGED <<users, todos, categories, userSeq, todoSeq, catSeq, graph, deleted,
                   now, heap, uniqueOrder>>

\* main.login_for_access_token
Login(w, username, password) ==
    /\ Free(w)
    /\ LET r == Request("login", [username |-> username, password |-> password], 0, 0)
           user == authenticate_user(users, username, password)
       IN IF user = None
          THEN /\ tokens' = tokens
               /\ wk' = [wk EXCEPT ![w] = Raise(r, 401, "Incorrect username or password")]
          ELSE LET token == create_access_token(user.username, now, TokenTTL)
               IN /\ tokens' = tokens \cup {token}
                  /\ wk' = [wk EXCEPT ![w] =
                        Return(r, [access_token |-> token, token_type |-> "bearer"])]
    /\ UNCHANGED <<users, todos, categories, userSeq, todoSeq, catSeq, graph, deleted,
                   now, heap, uniqueOrder>>

\* main.read_users_me behind auth.get_current_active_user: the token is
\* decoded, its subject looked up, the user checked to be active.
ReadUsersMe(w, token) ==
    /\ Free(w)
    /\ LET r == Request("me", token, 0, 0)
           sub == TokenSubject(token, now)
           user == IF sub = NULL THEN None ELSE get_user_by_username(users, sub)
       IN wk' = [wk EXCEPT ![w] =
            IF user = None THEN Raise(r, 401, "Could not validate credentials")
            ELSE IF ~user.is_active THEN Raise(r, 400, "Inactive user")
            ELSE Return(r, UserOut(user))]
    /\ UNCHANGED <<users, todos, categories, userSeq, todoSeq, catSeq, graph, deleted,
                   now, tokens, heap, uniqueOrder>>

\* Time passes.
MaxTime == 4

Tick ==
    /\ now < MaxTime
    /\ now' = now + 1
    /\ UNCHANGED <<users, todos, categories, userSeq, todoSeq, catSeq, graph, wk,
                   deleted, tokens, heap, uniqueOrder>>

\* ------------------------------------------------- calls of the graph client
\* Neo4jClient's methods called on their own, as a caller other than crud
\* (a redelivery, a reconciliation) would; the call and its arguments are
\* kept in wk[w] as a request without a body to answer.

MirrorUser(w, user_id, username, email) ==
    /\ Free(w)
    /\ graph' = create_user_node(graph, user_id, username, email)
    /\ wk' = [wk EXCEPT ![w] =
            Return(Request("create_user_node",
                           [user_id |-> user_id, username |-> username, email |-> email],
                           0, 0), None)]
    /\ UNCHANGED <<users, todos, categories, userSeq, todoSeq, catSeq, deleted, now,
                   tokens, heap, uniqueOrder>>

MirrorTodo(w, todo_id, title, user_id) ==
    /\ Free(w)
    /\ graph' = create_todo_node(graph, todo_id, title, user_id)
    /\ wk' = [wk EXCEPT ![w] =
            Return(Request("create_todo_node",
                           [todo_id |-> todo_id, title |-> title, user_id |-> user_id],
                           0, 0), None)]
    /\ UNCHANGED <<users, todos, categories, userSeq, todoSeq, catSeq, deleted, now,
                   tokens, heap, uniqueOrder>>

MirrorCategory(w, category_id, name, user_id) ==
    /\ Free(w)
    /\ graph' = create_category_node(graph, category_id, name, user_id)
    /\ wk' = [wk EXCEPT ![w] =
            Return(Request("create_category_node",
                           [category_id |-> category_id, name |-> name, user_id |-> user_id],
                           0, 0), None)]
    /\ UNCHANGED <<users, todos, categories, userSeq, todoSeq, catSeq, deleted, now,
                   tokens, heap, uniqueOrder>>

MirrorLink(w, todo_id, category_id) ==
    /\ Free(w)
    /\ graph' = link_todo_to_category(graph, todo_id, category_id)
    /\ wk' = [wk EXCEPT ![w] =
            Return(Request("link_todo_to_category",
                           [todo_id |-> todo_id, category_id |-> category_id],
                           0, 0), None)]
    /\ UNCHANGED <<users, todos, categories, userSeq, todoSeq, catSeq, deleted, now,
                   tokens, heap, uniqueOrder>>

\* ---------------------------------------------------------- specifications

\* The outcomes of a graph write: TRUE, it succeeds; FALSE, session.run raises.
Outcomes == BOOLEAN

\* The steps of POST /register on worker w.
RegisterSteps(w, inputs, oks) ==
    \/ \E user \in inputs : Register(w, user)
    \/ RegisterCheckEmail(w)
    \/ RegisterInsert(w)
    \/ RegisterUnique(w)
    \/ RegisterCommit(w)
    \/ RegisterRefresh(w)
    \/ \E ok \in oks : RegisterPropagate(w, ok)

\* The path parameters and the paging parameters requests are sent with.
TodoIds == 1..MaxTodos
Skips == {0, 1}
Limits == {1, 2}

\* The requests on todos of the authenticated user cur, and their later steps.
TodoSteps(w, cur, updates) ==
    \/ \E todo \in TodoCreateInputs : CreateTodo(w, cur, todo)
    \/ CreateTodoCommit(w)
    \/ CreateTodoRefresh(w)
    \/ CreateTodoPropagate(w, TRUE)
    \/ \E skip \in Skips, limit \in Limits : ReadTodos(w, cur, skip, limit)
    \/ \E id \in TodoIds : ReadTodo(w, cur, id)
    \/ \E id \in TodoIds, upd \in updates : UpdateTodo(w, cur, id, upd)
    \/ UpdateTodoFlush(w)
    \/ UpdateTodoCommit(w)
    \/ UpdateTodoRefresh(w)
    \/ \E id \in TodoIds : DeleteTodo(w, cur, id)
    \/ DeleteTodoFlush(w)
    \/ DeleteTodoCommit(w)

\* Registration alone: two workers serve POST /register concurrently.
NextRegister == \E w \in Workers : RegisterSteps(w, RegisterInputs, Outcomes)

SpecRegister == Init /\ [][NextRegister]_vars

\* The todo handlers: alice and bob register, then both work on todos; the
\* graph writes succeed.
TodoUsers == { u \in RegisterInputs : u.username = "bob" \/ u.email = "a@x" }

NextTodos ==
    \E w \in {"w1"} :
        \/ RegisterSteps(w, TodoUsers, {TRUE})
        \/ \E cur \in CurrentUsers : TodoSteps(w, cur, TodoUpdateInputs)

SpecTodos == Init /\ [][NextTodos]_vars

\* The graph client alone: its write methods called in any order with any
\* of these arguments, the graph starting empty.
GraphUserIds == {1, 2}
GraphUserProps ==
    { [username |-> "alice", email |-> "a@x"], [username |-> "al", email |-> "a2@x"] }
GraphTodoIds == {1, 2}
GraphTitles == {"X", "Z"}
GraphCatIds == {1}
GraphNames == {"Work"}

NextGraph ==
    \E w \in {"w1"} :
        \/ \E t \in GraphTodoIds, c \in GraphCatIds : MirrorLink(w, t, c)
        \/ \E id \in GraphUserIds, p \in GraphUserProps :
                MirrorUser(w, id, p.username, p.email)
        \/ \E id \in GraphTodoIds, title \in GraphTitles, u \in GraphUserIds :
                MirrorTodo(w, id, title, u)
        \/ \E id \in GraphCatIds, name \in GraphNames, u \in GraphUserIds :
                MirrorCategory(w, id, name, u)

SpecGraph == Init /\ [][NextGraph]_vars

\* The dual write: users register, create todos and categories and ask for
\* recommendations, and every graph write may fail.
NextMirror ==
    \E w \in {"w1"} :
        \/ RegisterSteps(w, TodoUsers, Outcomes)
        \/ \E cur \in CurrentUsers :
            \/ \E todo \in TodoCreateInputs : CreateTodo(w, cur, todo)
            \/ \E category \in CategoryCreateInputs : CreateCategory(w, cur, category)
            \/ ReadCategories(w, cur)
            \/ GetRecommendations(w, cur)
        \/ CreateTodoCommit(w)
        \/ CreateTodoRefresh(w)
        \/ \E ok \in Outcomes : CreateTodoPropagate(w, ok)
        \/ CreateCategoryCommit(w)
        \/ CreateCategoryRefresh(w)
        \/ \E ok \in Outcomes : CreateCategoryPropagate(w, ok)

SpecMirror == Init /\ [][NextMirror]_vars

\* Recommendations.  The store starts as the API and link_todo_to_category
\* leave it after: alice and bob registered; alice created category 1 and
\* bob category 2, both named "Work"; alice created nOwn todos titled "A",
\* then bob created one todo per element of others, with its title; every
\* graph write succeeded; alice's todos were linked to category 1 (when
\* ownLinked), and each of bob's to the category others names (0: none).
MaxOwn == 3
MaxOther == 3

RecUsers ==
    << NewUser(1, [username |-> "alice", email |-> "a@x", password |-> "pw1"]),
       NewUser(2, [username |-> "bob",   email |-> "b@x", password |-> "pw2"]) >>

RecCategories ==
    << NewCategory(1, [name |-> "Work", color |-> "#3B82F6"], 1),
       NewCategory(2, [name |-> "Work", color |-> "#3B82F6"], 2) >>

RecTodoInput(title) ==
    [title |-> title, description |-> NULL, priority |-> "medium", due_date |-> NULL]

RecTodos(nOwn, others) ==
    [ i \in 1..(nOwn + Len(others)) |->
        IF i <= nOwn THEN NewTodo(i, RecTodoInput("A"), 1)
        ELSE NewTodo(i, RecTodoInput(others[i - nOwn].title), 2) ]

\* crud's graph writes for the rows, in the order of the rows.
RECURSIVE MirrorUserRows(_, _)
MirrorUserRows(g, rows) ==
    IF rows = <<>> THEN g
    ELSE LET u == Head(rows)
         IN MirrorUserRows(create_user_node(g, u.id, u.username, u.email), Tail(rows))

RECURSIVE MirrorCategoryRows(_, _)
MirrorCategoryRows(g, rows) ==
    IF rows = <<>> THEN g
    ELSE LET c == Head(rows)
         IN MirrorCategoryRows(create_category_node(g, c.id, c.name, c.user_id), Tail(rows))

RECURSIVE MirrorTodoRows(_, _)
MirrorTodoRows(g, rows) ==
    IF rows = <<>> THEN g
    ELSE LET t == Head(rows)
         IN MirrorTodoRows(create_todo_node(g, t.id, t.title, t.user_id), Tail(rows))

\* link_todo_to_category for the links of the sequence, in its order.
RECURSIVE LinkAll(_, _)
LinkAll(g, links) ==
    IF links = <<>> THEN g
    ELSE LinkAll(link_todo_to_category(g, Head(links)[1], Head(links)[2]), Tail(links))

RecLinks(nOwn, ownLinked, others) ==
    LET all == [ i \in 1..(nOwn + Len(others)) |->
                   IF i <= nOwn THEN <<i, IF ownLinked THEN 1 ELSE 0>>
                   ELSE <<i, others[i - nOwn].category>> ]
    IN SelectSeq(all, LAMBDA l : l[2] # 0)

OtherTodoChoices == [title : {"X", "Y"}, category : {0, 1, 2}]

InitRec ==
    \E nOwn \in 0..MaxOwn, ownLinked \in BOOLEAN, nOther \in 0..MaxOther :
      \E others \in [1..nOther -> OtherTodoChoices] :
        /\ users = RecUsers
        /\ userSeq = Len(RecUsers)
        /\ categories = RecCategories
        /\ catSeq = Len(RecCategories)
        /\ todos = RecTodos(nOwn, others)
        /\ todoSeq = nOwn + nOther
        /\ graph = LinkAll(
                     MirrorTodoRows(
                       MirrorCategoryRows(MirrorUserRows(EmptyGraph, RecUsers),
                                          RecCategories),
                       RecTodos(nOwn, others)),
                     RecLinks(nOwn, ownLinked, others))
        /\ wk = [w \in Workers |-> IdleWorker]
        /\ deleted = {}
        /\ heap = [ i \in 1..(nOwn + nOther) |-> i ]
        /\ uniqueOrder \in UniqueOrders
        /\ now = 0
        /\ tokens = {}

NextRec == \E w \in {"w1"} : \E cur \in CurrentUsers : GetRecommendations(w, cur)

SpecRec == InitRec /\ [][NextRec]_vars

\* Sessions: alice registers, clients log in with right and wrong
\* credentials and present the tokens issued, or a token signed with
\* another key, while time passes.
LoginUsernames == {"alice", "bob"}
LoginPasswords == {"pw1", "pw2"}
ForgedTokens == { [sub |-> "alice", exp |-> MaxTime + TokenTTL, signed |-> FALSE] }

NextAuth ==
    \/ \E w \in {"w1"} :
        \/ RegisterSteps(w, { u \in RegisterInputs : u.email = "a@x" }, {TRUE})
        \/ \E username \in LoginUsernames, password \in LoginPasswords :
                Login(w, username, password)
        \/ \E token \in tokens \cup ForgedTokens : ReadUsersMe(w, token)
    \/ Tick

SpecAuth == Init /\ [][NextAuth]_vars

\* The whole API served by one worker: every HTTP operation of main.py, by
\* either user, the graph writes succeeding.
\* The update bodies sent here: those that leave completed a Boolean.
ApiUpdateInputs ==
    { u \in TodoUpdateInputs : "completed" \notin DOMAIN u \/ u.completed # NULL }

NextApi ==
    \E w \in {"w1"} :
        \/ RegisterSteps(w, TodoUsers, {TRUE})
        \/ \E username \in LoginUsernames, password \in LoginPasswords :
                Login(w, username, password)
        \/ \E token \in tokens : ReadUsersMe(w, token)
        \/ \E cur \in CurrentUsers :
            \/ TodoSteps(w, cur, ApiUpdateInputs)
            \/ \E category \in CategoryCreateInputs : CreateCategory(w, cur, category)
            \/ CreateCategoryCommit(w)
            \/ CreateCategoryRefresh(w)
            \/ CreateCategoryPropagate(w, TRUE)
            \/ ReadCategories(w, cur)
            \/ GetRecommendations(w, cur)

SpecApi == Init /\ [][NextApi]_vars

\* Concurrent updates.  The store starts as POST /register by alice and her
\* POST /todos leave it; then each of the two workers serves one PUT of
\* todo 1 by alice, their steps interleaving.
BaseUser == NewUser(1, CHOOSE u \in RegisterInputs : u.username = "alice" /\ u.email = "a@x")
BaseTodo == NewTodo(1, CHOOSE t \in TodoCreateInputs : TRUE, 1)

UpdateRaceInputs ==
    { [title |-> "Z", priority |-> "low"],
      [title |-> "X", priority |-> "high"],
      [title |-> "Z"],
      [completed |-> "true", priority |-> "high"],
      [due_date |-> "d2"] }

InitUpdates ==
    /\ users = <<BaseUser>>
    /\ userSeq = 1
    /\ todos = <<BaseTodo>>
    /\ heap = <<1>>
    /\ uniqueOrder \in UniqueOrders
    /\ todoSeq = 1
    /\ categories = <<>>
    /\ catSeq = 0
    /\ graph = create_todo_node(
                 create_user_node(EmptyGraph, 1, BaseUser.username, BaseUser.email),
                 1, BaseTodo.title, 1)
    /\ wk = [w \in Workers |-> IdleWorker]
    /\ deleted = {}
    /\ now = 0
    /\ tokens = {}

NextUpdates ==
    \E w \in Workers :
        \/ /\ wk[w].pc = "idle"
           /\ \E upd \in UpdateRaceInputs : UpdateTodo(w, 1, 1, upd)
        \/ UpdateTodoFlush(w)
    \/ UpdateTodoCommit(w)
        \/ UpdateTodoRefresh(w)

SpecUpdates == InitUpdates /\ [][NextUpdates]_vars

\* Races of the dual write: two workers serve registrations of one username
\* under two emails, and todo and category requests of whoever has a users
\* row, while every graph write may fail.
RaceUsers == { u \in RegisterInputs : u.username = "alice" }

NextRace ==
    \E w \in Workers :
        \/ RegisterSteps(w, RaceUsers, Outcomes)
        \/ \E cur \in CurrentUsers :
            \/ \E todo \in TodoCreateInputs : CreateTodo(w, cur, todo)
            \/ \E category \in CategoryCreateInputs : CreateCategory(w, cur, category)
            \/ \E id \in TodoIds : DeleteTodo(w, cur, id)
        \/ CreateTodoCommit(w)
        \/ CreateTodoRefresh(w)
        \/ \E ok \in Outcomes : CreateTodoPropagate(w, ok)
        \/ CreateCategoryCommit(w)
        \/ CreateCategoryRefresh(w)
        \/ \E ok \in Outcomes : CreateCategoryPropagate(w, ok)
        \/ DeleteTodoFlush(w)
    \/ DeleteTodoCommit(w)

SpecRace == Init /\ [][NextRace]_vars

\* The dual write without failures: alice registers, and the two workers
\* serve her todo and category requests; every graph write succeeds.  A
\* handler that has committed its row goes on to its next statement: its
\* graph write is weakly fair.
SyncUsers == { u \in RegisterInputs : u.username = "alice" /\ u.email = "a@x" }

NextSync ==
    \E w \in Workers :
        \/ RegisterSteps(w, SyncUsers, {TRUE})
        \/ \E cur \in CurrentUsers :
            \/ \E todo \in TodoCreateInputs : CreateTodo(w, cur, todo)
            \/ \E category \in CategoryCreateInputs : CreateCategory(w, cur, category)
            \/ \E id \in TodoIds : DeleteTodo(w, cur, id)
        \/ CreateTodoCommit(w)
        \/ CreateTodoRefresh(w)
        \/ CreateTodoPropagate(w, TRUE)
        \/ CreateCategoryCommit(w)
        \/ CreateCategoryRefresh(w)
        \/ CreateCategoryPropagate(w, TRUE)
        \/ DeleteTodoFlush(w)
    \/ DeleteTodoCommit(w)

SpecSync ==
    /\ Init /\ [][NextSync]_vars
    /\ \A w \in Workers :
        /\ WF_vars(RegisterInsert(w))
        /\ WF_vars(RegisterUnique(w))
        /\ WF_vars(RegisterCommit(w))
        /\ WF_vars(CreateTodoCommit(w))
        /\ WF_vars(CreateCategoryCommit(w))
        /\ WF_vars(RegisterRefresh(w))
        /\ WF_vars(RegisterPropagate(w, TRUE))
        /\ WF_vars(CreateTodoRefresh(w))
        /\ WF_vars(CreateCategoryRefresh(w))
        /\ WF_vars(CreateTodoPropagate(w, TRUE))
        /\ WF_vars(CreateCategoryPropagate(w, TRUE))

\* ------------------------------------------------------------------ claims

\* Whether a register request found, when it arrived, a users row with its
\* username, or with its email (rows are only ever appended to users, so the
\* first r.seen rows are the rows of that moment).
UsernameTakenOnArrival(r) ==
    \E i \in 1..r.seen : users[i].username = r.in.username

EmailTakenOnArrival(r) ==
    \E i \in 1..r.seen : users[i].email = r.in.email

\* C1: a register whose username or email is that of a user already
\* registered when it arrives ends with 400 and nothing else: none of its
\* steps changes the users table or the graph, it never reaches the INSERT,
\* and with the username taken its first step already answers 400.
C1_ConflictRejected ==
    [][\A w \in Workers :
        ( /\ wk'[w] # wk[w]
          /\ wk'[w].op = "register"
          /\ UsernameTakenOnArrival(wk'[w]) \/ EmailTakenOnArrival(wk'[w]) )
        => /\ users' = users /\ userSeq' = userSeq /\ graph' = graph
           /\ wk'[w].pc \in {"check_email", "done"}
           /\ wk'[w].pc = "done" => wk'[w].status = 400
           /\ UsernameTakenOnArrival(wk'[w]) => wk'[w].pc = "done"]_vars

\* C1 witness: a register answered 400 for its email, the username being free.
C1_Witness ==
    \E w \in Workers :
        /\ wk[w].op = "register" /\ wk[w].pc = "done" /\ wk[w].status = 400
        /\ EmailTakenOnArrival(wk[w]) /\ ~UsernameTakenOnArrival(wk[w])
        /\ wk[w].body.detail = "Email already registered"

\* A register request that has inserted its row.
Created(r) ==
    r.op = "register" /\ (r.pc \in {"refresh", "propagate"} \/ (r.pc = "done" /\ r.status = 200))

\* C2: in every state, under every interleaving of two registers, no two
\* users rows share a username or an email, no two User nodes do, and two
\* registers with the same username or email have not both created a user.
C2_UniqueUsers ==
    /\ \A i, j \in 1..Len(users) :
        i # j => /\ users[i].username # users[j].username
                 /\ users[i].email # users[j].email
                 /\ users[i].id # users[j].id
    /\ \A i, j \in 1..Len(graph.users) :
        i # j => /\ graph.users[i].username # graph.users[j].username
                 /\ graph.users[i].email # graph.users[j].email
    /\ \A v, w \in Workers :
        ( /\ v # w /\ Created(wk[v]) /\ Created(wk[w]) )
        => /\ wk[v].in.username # wk[w].in.username
           /\ wk[v].in.email # wk[w].in.email

\* C2 witness: two registers with one username both passed the lookups; one
\* inserted its row after the other had arrived, and the other got 500.
C2_Witness ==
    \E v, w \in Workers :
        /\ v # w
        /\ wk[v].op = "register" /\ wk[w].op = "register"
        /\ wk[v].in.username = wk[w].in.username
        /\ wk[v].pc = "done" /\ wk[v].status = 500
        /\ Created(wk[w])
        /\ ~UsernameTakenOnArrival(wk[v]) /\ ~EmailTakenOnArrival(wk[v])
        /\ Len(users) = 1

\* A request arrives at worker w in this step.
Arrives(w) == Free(w) /\ wk'[w] # wk[w]

NotFound == [detail |-> "Todo not found"]

\* C3: GET, PUT or DELETE /todos/{id} by a user who does not own the todo
\* with that id is answered 404 with the body an absent id gets, in its
\* first step, and the todos table (that todo included) stays as it is.
C3_OtherOwnerNotFound ==
    [][\A w \in Workers :
        ( /\ Arrives(w)
          /\ wk'[w].op \in {"read_todo", "update_todo", "delete_todo"}
          /\ \A i \in 1..Len(todos) :
                todos[i].id = wk'[w].id => todos[i].user_id # wk'[w].cur )
        => /\ wk'[w].pc = "done"
           /\ wk'[w].status = 404
           /\ wk'[w].body = NotFound
           /\ todos' = todos]_vars

\* C3 witness: a PUT on a todo another user owns was answered 404, and the
\* todo is in the table.
C3_Witness ==
    \E w \in Workers :
        /\ wk[w].op = "update_todo" /\ wk[w].pc = "done" /\ wk[w].status = 404
        /\ \E i \in 1..Len(todos) :
             todos[i].id = wk[w].id /\ todos[i].user_id # wk[w].cur

\* The step of update_todo on worker w that sends its UPDATE.
UpdateFlushes(w) ==
    wk[w].op = "update_todo" /\ wk[w].pc = "update" /\ wk'[w].pc # "update"

\* The commit step of update_todo on worker w, on the row at position i.
UpdateCommits(w, i) ==
    /\ wk[w].op = "update_todo" /\ wk[w].pc = "commit" /\ wk'[w].pc # "commit"
    /\ i \in 1..Len(todos)
    /\ todos[i] = wk[w].obj

\* The row after the fields set in todo_update took the values supplied.
Applied(row, todo_update) ==
    [ f \in DOMAIN row |-> IF f \in DOMAIN todo_update THEN todo_update[f] ELSE row[f] ]

\* The rest of the store is as it was: every other todo, the users, the
\* categories.
OthersUnchanged(i) ==
    /\ Len(todos') = Len(todos)
    /\ \A j \in 1..Len(todos) : j # i => todos'[j] = todos[j]
    /\ users' = users
    /\ categories' = categories

C5_DeletedStaysGone ==
    [][/\ \A id \in deleted' : RowsWithId(todos', id) = {}
       /\ \A w \in Workers :
            Arrives(w) =>
              /\ (wk'[w].op = "read_todos" /\ wk'[w].status = 200) =>
                    \A k \in 1..Len(wk'[w].body.items) :
                        wk'[w].body.items[k].id \notin deleted
              /\ ( /\ wk'[w].op \in {"read_todo", "update_todo", "delete_todo"}
                    /\ wk'[w].id \in deleted )
                 => /\ wk'[w].pc = "done" /\ wk'[w].status = 404
                    /\ todos' = todos /\ deleted' = deleted /\ graph' = graph]_vars

\* C5 witness: a second DELETE of a deleted todo was answered 404, by the
\* user who had owned it, while another todo was created after the delete.
C5_Witness ==
    \E w \in Workers :
        /\ wk[w].op = "delete_todo" /\ wk[w].pc = "done" /\ wk[w].status = 404
        /\ wk[w].id \in deleted
        /\ wk[w].id = 1
        /\ Len(todos) = 1 /\ todos[1].user_id = wk[w].cur

\* No two nodes of the sequence carry one id.
OnePerId(nodes) ==
    \A i, j \in 1..Len(nodes) : nodes[i].id = nodes[j].id => i = j

\* No two edges of the bag join the same two nodes.
OnePerPair(edges) == \A p \in DOMAIN edges : edges[p] = 1

\* C6: propagation is an idempotent merge keyed by id.  In every graph the
\* calls produce there is one node per label and id and one OWNS or CREATED
\* edge per pair of nodes; after a call the node with its id carries the
\* properties of that call (and the edge from the user named exists when
\* that user has a node); and any call applied twice gives the graph that
\* applying it once gives.
C6_IdempotentMerge ==
    /\ OnePerId(graph.users) /\ OnePerId(graph.todos) /\ OnePerId(graph.cats)
    /\ OnePerPair(graph.owns) /\ OnePerPair(graph.created)
    /\ \A w \in Workers :
        /\ wk[w].op = "create_user_node" =>
             \E i \in 1..Len(graph.users) :
                graph.users[i] = [id |-> wk[w].in.user_id,
                                  username |-> wk[w].in.username,
                                  email |-> wk[w].in.email]
        /\ wk[w].op = "create_todo_node" =>
             \E i \in 1..Len(graph.todos) :
                /\ graph.todos[i] = [id |-> wk[w].in.todo_id, title |-> wk[w].in.title]
                /\ \A u \in MatchNodes(graph.users, wk[w].in.user_id) :
                        BagIn(<<u, i>>, graph.owns)
        /\ wk[w].op = "create_category_node" =>
             \E i \in 1..Len(graph.cats) :
                /\ graph.cats[i] = [id |-> wk[w].in.category_id, name |-> wk[w].in.name]
                /\ \A u \in MatchNodes(graph.users, wk[w].in.user_id) :
                        BagIn(<<u, i>>, graph.created)
    /\ \A id \in GraphUserIds, p \in GraphUserProps :
        LET once == create_user_node(graph, id, p.username, p.email)
        IN create_user_node(once, id, p.username, p.email) = once
    /\ \A id \in GraphTodoIds, title \in GraphTitles, u \in GraphUserIds :
        LET once == create_todo_node(graph, id, title, u)
        IN create_todo_node(once, id, title, u) = once
    /\ \A id \in GraphCatIds, name \in GraphNames, u \in GraphUserIds :
        LET once == create_category_node(graph, id, name, u)
        IN create_category_node(once, id, name, u) = once

\* C6 witness: the last call merged, with the title "Z", the Todo node that
\* was created before another one, for a user who has a node: still two
\* Todo nodes, one OWNS edge between the pair, and three OWNS edges in all.
C6_Witness ==
    /\ wk["w1"].op = "create_todo_node"
    /\ Len(graph.todos) = 2
    /\ graph.todos[1] = [id |-> wk["w1"].in.todo_id, title |-> "Z"]
    /\ \E u \in MatchNodes(graph.users, wk["w1"].in.user_id) :
            CopiesIn(<<u, 1>>, graph.owns) = 1
    /\ BagCardinality(graph.owns) = 3

\* The row a create handler inserted is in its table.
RowKept(r) ==
    \/ r.op = "register" /\ r.obj \in Range(users')
    \/ r.op = "create_todo" /\ r.obj \in Range(todos')
    \/ r.op = "create_category" /\ r.obj \in Range(categories')

\* C7: whatever becomes of the graph write of createUser, createTodo or
\* createCategory, the call returns the entity it created (200) and the
\* row it committed stays in the relational store.
C7_PropagationFailureNotSurfaced ==
    [][\A w \in Workers :
        (wk[w].pc = "propagate" /\ wk'[w].pc = "done")
        => /\ wk'[w].status = 200
           /\ wk'[w].body.id = wk[w].obj.id
           /\ RowKept(wk[w])]_vars

\* The Todo nodes with an OWNS edge from a User node with this id.
OwnedBy(g, user_id) ==
    { t \in 1..Len(g.todos) :
        \E u \in MatchNodes(g.users, user_id) : BagIn(<<u, t>>, g.owns) }

\* The Todo nodes with an OWNS edge from a User node with another id.
OwnedByOther(g, user_id) ==
    { t \in 1..Len(g.todos) :
        \E u \in 1..Len(g.users) : g.users[u].id # user_id /\ BagIn(<<u, t>>, g.owns) }

\* The Category nodes a Todo node of the set BELONGS_TO.
CategoriesOf(g, todoNodes) ==
    { c \in 1..Len(g.cats) : \E t \in todoNodes : BagIn(<<t, c>>, g.belongs) }

\* The Todo nodes that may be recommended to user_id: owned by another
\* user, and in a category node that holds a todo of user_id.
Qualifying(g, user_id) ==
    { oc \in OwnedByOther(g, user_id) \X CategoriesOf(g, OwnedBy(g, user_id)) :
        BagIn(oc, g.belongs) }

QualifyingPairs(g, user_id) ==
    { [recommendation |-> g.todos[oc[1]].title, category |-> g.cats[oc[2]].name] :
        oc \in Qualifying(g, user_id) }

\* A response to GET /recommendations.
Recommended(r) == r.op = "recommendations" /\ r.pc = "done"

\* C8: recommend(userId) answers 200 and never returns a todo userId owns:
\* every entry is the title and category of a Todo node that a user with
\* another id owns and userId does not; and the result is empty when userId
\* owns no categorized todo or no other user owns a todo in a category of
\* userId's todos.
C8_NoOwnTodoRecommended ==
    \A w \in Workers :
        Recommended(wk[w]) =>
            LET uid  == wk[w].cur
                recs == wk[w].body.recommendations
            IN /\ wk[w].status = 200
               /\ \A e \in BagToSet(recs) :
                    \E oc \in Qualifying(graph, uid) :
                        /\ e.recommendation = graph.todos[oc[1]].title
                        /\ e.category = graph.cats[oc[2]].name
                        /\ oc[1] \notin OwnedBy(graph, uid)
               /\ \A r \in RecRows(graph, uid) : r[4] \notin OwnedBy(graph, uid)
               /\ ( \/ CategoriesOf(graph, OwnedBy(graph, uid)) = {}
                    \/ \A c \in CategoriesOf(graph, OwnedBy(graph, uid)) :
                          \A t \in 1..Len(graph.todos) :
                              BagIn(<<t, c>>, graph.belongs) => t \in OwnedBy(graph, uid) )
                  => recs = EmptyBag

\* C8 witness: alice, with two todos in category 1, was recommended a todo of
\* bob's in category 1 and nothing else, a todo of bob's being elsewhere.
C8_Witness ==
    \E w \in Workers :
        /\ Recommended(wk[w]) /\ wk[w].cur = 1
        /\ Cardinality({ t \in OwnedBy(graph, 1) : BagIn(<<t, 1>>, graph.belongs) }) = 2
        /\ BagToSet(wk[w].body.recommendations) = { [recommendation |-> "X", category |-> "Work"] }
        /\ \E t \in OwnedBy(graph, 2) : BagIn(<<t, 2>>, graph.belongs)

\* C9: recommend(userId) returns at most 5 entries, each the title and
\* category name of a todo of another user in a category node that holds a
\* todo of userId, and, with fewer than 5 distinct such pairs, all of them.
C9_RecommendationsComplete ==
    \A w \in Workers :
        Recommended(wk[w]) =>
            LET pairs == QualifyingPairs(graph, wk[w].cur)
                recs  == wk[w].body.recommendations
            IN /\ BagCardinality(recs) <= RecLimit
               /\ BagToSet(recs) \subseteq pairs
               /\ Cardinality(pairs) < RecLimit => BagToSet(recs) = pairs

\* C10: a token issued by POST /token carries the username of the user as
\* subject and the expiry now + TokenTTL; GET /users/me with a token issued
\* answers with the user of its subject at every time up to its expiry and
\* 401 at every later time, and time does not go back, so an expired token
\* is never accepted again; POST /token with credentials that do not verify
\* answers 401 and issues no token.
C10_TokenLifetime ==
    [][/\ now' >= now
       /\ \A w \in Workers :
            Arrives(w) =>
              /\ wk'[w].op = "login" =>
                    IF \E i \in 1..Len(users) :
                          /\ users[i].username = wk'[w].in.username
                          /\ users[i].hashed_password = get_password_hash(wk'[w].in.password)
                    THEN /\ wk'[w].status = 200
                         /\ wk'[w].body.token_type = "bearer"
                         /\ wk'[w].body.access_token.sub = wk'[w].in.username
                         /\ wk'[w].body.access_token.exp = now + TokenTTL
                         /\ tokens' = tokens \cup {wk'[w].body.access_token}
                    ELSE wk'[w].status = 401 /\ tokens' = tokens
              /\ (wk'[w].op = "me" /\ wk'[w].in \in tokens) =>
                    IF now <= wk'[w].in.exp
                    THEN wk'[w].status = 200 /\ wk'[w].body.username = wk'[w].in.sub
                    ELSE wk'[w].status = 401]_vars

\* C10 witness: a token issued to alice is refused, its expiry passed, while
\* a later token of hers is still good.
C10_Witness ==
    \E w \in Workers :
        /\ wk[w].op = "me" /\ wk[w].pc = "done" /\ wk[w].status = 401
        /\ wk[w].in \in tokens /\ wk[w].in.sub = "alice"
        /\ now = wk[w].in.exp + 1
        /\ \E t \in tokens : t.exp >= now

\* The todos of user_id in the order they were inserted.
InsertionOrder(user_id) == SelectSeq(todos, LAMBDA t : t.user_id = user_id)

\* The pages skip, skip + limit, ... of a listing of rows, one after another.
RECURSIVE Pages(_, _, _, _)
Pages(rows, user_id, skip, limit) ==
    IF skip >= Len(SelectSeq(rows, LAMBDA t : t.user_id = user_id)) THEN <<>>
    ELSE get_todos(rows, user_id, skip, limit) \o Pages(rows, user_id, skip + limit, limit)

\* C18: listTodos(userId, skip, limit), when it answers 200, returns only
\* todos of userId, at most limit of them, namely those at positions skip to
\* skip + limit - 1 of the user's todos in insertion order; and the
\* consecutive pages of a listing of the store as it is hold every todo of
\* the user exactly once.
C18_ListInsertionOrder ==
    /\ \A w \in Workers :
        (wk[w].op = "read_todos" /\ wk[w].pc = "done" /\ wk[w].status = 200) =>
            LET items == wk[w].body.items
                mine  == InsertionOrder(wk[w].cur)
                skip  == wk[w].in.skip
                limit == wk[w].in.limit
            IN /\ \A i \in 1..Len(items) : items[i].user_id = wk[w].cur
               /\ Len(items) <= limit
               /\ items = SubSeq(mine, skip + 1,
                                 IF skip + limit < Len(mine) THEN skip + limit ELSE Len(mine))
    /\ \A cur \in CurrentUsers, limit \in Limits :
        LET all == Pages(Scan(todos, heap), cur, 0, limit)
        IN /\ Len(all) = Len(InsertionOrder(cur))
           /\ Range(all) = Range(InsertionOrder(cur))

\* The Todo node with this id carries this title.
TodoNodeIs(id, title) ==
    \E i \in 1..Len(graph.todos) : graph.todos[i] = [id |-> id, title |-> title]

\* C11: once createUser, createTodo, updateTodo or createCategory has
\* returned its entity (no graph write having failed), the node with the
\* entity's id carries the mirrored values of the row returned: username and
\* email of a User, title of a Todo, name of a Category.
C11_MirrorFollowsWrites ==
    \A w \in Workers :
        (wk[w].pc = "done" /\ wk[w].status = 200) =>
            /\ wk[w].op = "register" =>
                 \E i \in 1..Len(graph.users) :
                    graph.users[i] = [id |-> wk[w].body.id,
                                      username |-> wk[w].body.username,
                                      email |-> wk[w].body.email]
            /\ wk[w].op \in {"create_todo", "update_todo"} =>
                 TodoNodeIs(wk[w].body.id, wk[w].body.title)
            /\ wk[w].op = "create_category" =>
                 \E i \in 1..Len(graph.cats) :
                    graph.cats[i] = [id |-> wk[w].body.id, name |-> wk[w].body.name]

\* C19: in every state the HTTP operations reach, the graph holds no
\* BELONGS_TO edge (no handler calls link_todo_to_category), and every
\* answer of GET /recommendations is 200 with an empty sequence.
C19_NoBelongsToEdge ==
    /\ graph.belongs = EmptyBag
    /\ \A w \in Workers :
        Recommended(wk[w]) =>
            /\ wk[w].status = 200
            /\ wk[w].body.recommendations = EmptyBag

\* C19 witness: recommendations were asked for by a user who owns a Todo
\* node, a user with another id owning a Todo node too and a Category node
\* being there: only the BELONGS_TO edges are missing.
C19_Witness ==
    \E w \in Workers :
        /\ Recommended(wk[w])
        /\ OwnedBy(graph, wk[w].cur) # {}
        /\ OwnedByOther(graph, wk[w].cur) # {}
        /\ Len(graph.cats) > 0

\* The ids of the rows of a table.
Ids(rows) == { rows[i].id : i \in 1..Len(rows) }

\* The owner of the row with this id.
OwnerOf(rows, id) == rows[CHOOSE i \in 1..Len(rows) : rows[i].id = id].user_id

\* C20: a todo's user_id is the id of the authenticated user whose request
\* inserted it (the row appears with the commit of that request, under an id
\* never seen before), and no step changes it while the row exists; the same
\* for a category.
C20_OwnerNeverChanges ==
    [][/\ \A id \in Ids(todos) \cap Ids(todos') :
            OwnerOf(todos', id) = OwnerOf(todos, id)
       /\ \A id \in Ids(todos') \ Ids(todos) :
            /\ id \in 1..todoSeq /\ id \notin deleted
            /\ \E w \in Workers :
                /\ wk[w].op = "create_todo" /\ wk[w].pc = "commit"
                /\ wk[w].obj.id = id
                /\ OwnerOf(todos', id) = wk[w].cur
       /\ \A id \in Ids(categories) \cap Ids(categories') :
            OwnerOf(categories', id) = OwnerOf(categories, id)
       /\ \A id \in Ids(categories') \ Ids(categories) :
            /\ id \in 1..catSeq
            /\ \E w \in Workers :
                /\ wk[w].op = "create_category" /\ wk[w].pc = "commit"
                /\ wk[w].obj.id = id
                /\ OwnerOf(categories', id) = wk[w].cur]_vars

\* C20 witness: user 2's update of a todo of theirs has returned, changing
\* it, while user 1 owns the other todo and the category.
C20_Witness ==
    \E w \in Workers :
        /\ wk[w].op = "update_todo" /\ wk[w].pc = "done" /\ wk[w].status = 200
        /\ wk[w].cur = 2 /\ wk[w].body.title = "Z" /\ wk[w].body.user_id = 2
        /\ \E i \in 1..Len(todos) : todos[i].user_id = 1
        /\ \E i \in 1..Len(categories) : categories[i].user_id = 1

\* C17: two updateTodo calls by one user on one todo, their steps
\* interleaved in any way, leave the todo as applying the one partial update
\* and then the other, in one of the two orders, leaves it.
C17_UpdatesSerialized ==
    ( /\ \A w \in Workers : wk[w].op = "update_todo" /\ wk[w].pc = "done"
      /\ Len(todos) = 1 )
    => LET a == wk["w1"].in
           b == wk["w2"].in
       IN \/ todos[1] = Applied(Applied(BaseTodo, a), b)
          \/ todos[1] = Applied(Applied(BaseTodo, b), a)

\* An edge of the bag joins a node with id a of the one sequence to a node
\* with id b of the other.
Joined(edges, from, a, to, b) ==
    \E u \in MatchNodes(from, a), t \in MatchNodes(to, b) : BagIn(<<u, t>>, edges)

\* A create handler of this kind takes its last step and answers 200.
Propagated(w, op) ==
    /\ wk[w].op = op /\ wk[w].pc = "propagate"
    /\ wk'[w].pc = "done" /\ wk'[w].status = 200

\* C12 as stated: whenever createTodo has returned its todo, the User node of
\* its owner has an OWNS edge to the Todo node of the new id, and likewise a
\* CREATED edge after createCategory, under every interleaving.
C12_OwnerEdge_Original ==
    \A w \in Workers :
        (wk[w].pc = "done" /\ wk[w].status = 200) =>
            /\ wk[w].op = "create_todo" =>
                 Joined(graph.owns, graph.users, wk[w].cur, graph.todos, wk[w].body.id)
            /\ wk[w].op = "create_category" =>
                 Joined(graph.created, graph.users, wk[w].cur, graph.cats, wk[w].body.id)

\* C12 amended: when createTodo returns its todo, the OWNS edge from the
\* owner's User node to the new Todo node is there if and only if the User
\* node was in the graph when the Todo node was merged, and likewise the
\* CREATED edge of createCategory; an edge once there stays.
C12_OwnerEdge ==
    [][/\ \A w \in Workers :
            /\ Propagated(w, "create_todo") =>
                 ( Joined(graph'.owns, graph'.users, wk[w].cur, graph'.todos, wk[w].obj.id)
                   <=> MatchNodes(graph.users, wk[w].cur) # {} )
            /\ Propagated(w, "create_category") =>
                 ( Joined(graph'.created, graph'.users, wk[w].cur, graph'.cats, wk[w].obj.id)
                   <=> MatchNodes(graph.users, wk[w].cur) # {} )
       /\ \A p \in DOMAIN graph.owns : BagIn(p, graph'.owns)
       /\ \A p \in DOMAIN graph.created : BagIn(p, graph'.created)]_vars

\* C12 witness: a createTodo has returned todo 2 with its OWNS edge, while
\* todo 1, merged before the owner's User node was, has none.
C12_Witness ==
    \E w \in Workers :
        /\ wk[w].op = "create_todo" /\ wk[w].pc = "done" /\ wk[w].status = 200
        /\ wk[w].body.id = 2
        /\ Joined(graph.owns, graph.users, wk[w].cur, graph.todos, 2)
        /\ MatchNodes(graph.todos, 1) # {}
        /\ ~Joined(graph.owns, graph.users, wk[w].cur, graph.todos, 1)

\* C13: every node of the graph has the id of a row committed before the
\* node was merged: a step that adds a node adds it for an id the table
\* handed out to a committed INSERT before the step; a User node carries the
\* id, username and email of a users row; and no node is there for a
\* register whose INSERT failed.
C13_NodesFollowCommits ==
    /\ [](/\ \A i \in 1..Len(graph.users) :
               \E j \in 1..Len(users) :
                  graph.users[i] = [id |-> users[j].id, username |-> users[j].username,
                                    email |-> users[j].email]
          /\ \A i \in 1..Len(graph.todos) : graph.todos[i].id \in 1..todoSeq
          /\ \A i \in 1..Len(graph.cats) : graph.cats[i].id \in Ids(categories))
    /\ [][/\ \A i \in 1..Len(graph'.users) :
               MatchNodes(graph.users, graph'.users[i].id) = {}
                  => graph'.users[i].id \in Ids(users)
          /\ \A i \in 1..Len(graph'.todos) :
               MatchNodes(graph.todos, graph'.todos[i].id) = {}
                  => graph'.todos[i].id \in Ids(todos) \cup deleted
          /\ \A i \in 1..Len(graph'.cats) :
               MatchNodes(graph.cats, graph'.cats[i].id) = {}
                  => graph'.cats[i].id \in Ids(categories)]_vars

\* C13 witness: a register was answered 500 by its INSERT, the username
\* having been taken meanwhile; the graph holds the User node of the row that
\* was committed, and the Todo node of a todo whose row has been deleted.
C13_Witness ==
    \E w \in Workers :
        /\ wk[w].op = "register" /\ wk[w].pc = "done" /\ wk[w].status = 500
        /\ wk[w].in.email \notin { users[i].email : i \in 1..Len(users) }
        /\ Len(graph.users) = 1
        /\ \E i \in 1..Len(graph.todos) : graph.todos[i].id \in deleted

\* C14 as stated: with every graph write succeeding and every handler
\* running on, each todo and each category committed by createTodo or
\* createCategory comes to have a node with its id, and a node once in the
\* graph stays.
C14_EventuallyMirrored_Original ==
    /\ \A id \in 1..MaxTodos :
        (todoSeq >= id) ~> (MatchNodes(graph.todos, id) # {})
    /\ \A id \in 1..MaxCats :
        (catSeq >= id) ~> (MatchNodes(graph.cats, id) # {})

\* C14 amended: with every graph write succeeding and every handler running
\* on, each category committed by createCategory, and each todo committed by
\* createTodo unless it is deleted before createTodo has reloaded it, comes
\* to have a node with its id; and a node once in the graph stays.
C14_EventuallyMirrored ==
    /\ \A id \in 1..MaxTodos :
        (todoSeq >= id) ~> (MatchNodes(graph.todos, id) # {} \/ id \in deleted)
    /\ \A id \in 1..MaxTodos :
        ( \E w \in Workers : /\ wk[w].op = "create_todo" /\ wk[w].pc = "propagate"
                             /\ wk[w].obj.id = id )
        ~> (MatchNodes(graph.todos, id) # {})
    /\ \A id \in 1..MaxCats :
        (catSeq >= id) ~> (MatchNodes(graph.cats, id) # {})
    /\ [][/\ \A i \in 1..Len(graph.todos) :
               i <= Len(graph'.todos) /\ graph'.todos[i].id = graph.todos[i].id
          /\ \A i \in 1..Len(graph.cats) :
               i <= Len(graph'.cats) /\ graph'.cats[i].id = graph.cats[i].id]_vars

\* C14 witness: a createTodo was answered 500, its todo deleted between its
\* commit and its reload, and that todo has no node; the other todo and the
\* category have theirs.
C14_Witness ==
    \E w \in Workers : \E id \in deleted :
        /\ wk[w].op = "create_todo" /\ wk[w].pc = "done" /\ wk[w].status = 500
        /\ MatchNodes(graph.todos, id) = {}
        /\ \E other \in Ids(todos) : MatchNodes(graph.todos, other) # {}
        /\ catSeq = MaxCats
        /\ \A c \in 1..MaxCats : MatchNodes(graph.cats, c) # {}

\* C15: when the Todo or Category node is merged while no User node has the
\* owner's id, the node is merged with its properties, no OWNS or CREATED
\* edge is added, and the call answers 200 with the entity; and the merge of
\* a User node adds no OWNS and no CREATED edge.
C15_MissingOwnerNoEdge ==
    [][\A w \in Workers :
        /\ ( /\ wk[w].op = "create_todo" /\ wk[w].pc = "propagate" /\ wk'[w].pc = "done"
             /\ MatchNodes(graph.users, wk[w].cur) = {} )
           => /\ wk'[w].status = 200 /\ wk'[w].body = wk[w].obj
              /\ \E i \in 1..Len(graph'.todos) :
                    graph'.todos[i] = [id |-> wk[w].obj.id, title |-> wk[w].obj.title]
              /\ graph'.owns = graph.owns /\ graph'.created = graph.created
        /\ ( /\ wk[w].op = "create_category" /\ wk[w].pc = "propagate" /\ wk'[w].pc = "done"
             /\ MatchNodes(graph.users, wk[w].cur) = {} )
           => /\ wk'[w].status = 200 /\ wk'[w].body = wk[w].obj
              /\ \E i \in 1..Len(graph'.cats) :
                    graph'.cats[i] = [id |-> wk[w].obj.id, name |-> wk[w].obj.name]
              /\ graph'.owns = graph.owns /\ graph'.created = graph.created
        /\ ( wk[w].op = "register" /\ wk[w].pc = "propagate" /\ wk'[w].pc = "done" )
           => /\ graph'.users # graph.users
              /\ graph'.owns = graph.owns /\ graph'.created = graph.created]_vars

\* C15 witness: alice's register has returned, her User node merged after
\* the nodes of her todo and her category: three nodes and no edge.
C15_Witness ==
    \E w \in Workers :
        /\ wk[w].op = "register" /\ wk[w].pc = "done" /\ wk[w].status = 200
        /\ Len(graph.users) = 1 /\ Len(graph.todos) >= 1 /\ Len(graph.cats) = 1
        /\ graph.owns = EmptyBag /\ graph.created = EmptyBag

\* C16: no step of deleteTodo, whether it ends in 200 or in 404, changes the
\* graph; and no step of any handler removes a Todo node or an OWNS edge, so
\* the node and the edge of a deleted todo stay.
C16_DeleteLeavesGraph ==
    [][/\ \A w \in Workers :
            (wk'[w] # wk[w] /\ wk'[w].op = "delete_todo") => graph' = graph
       /\ \A i \in 1..Len(graph.todos) :
            i <= Len(graph'.todos) /\ graph'.todos[i].id = graph.todos[i].id
       /\ \A p \in DOMAIN graph.owns :
            CopiesIn(p, graph'.owns) >= CopiesIn(p, graph.owns)]_vars

\* C16 witness: a DELETE has returned 200 and the row is gone, while the
\* Todo node of its id and the OWNS edge from its owner are in the graph;
\* and a DELETE of the same id was then answered 404.
C16_Witness ==
    \E w \in Workers :
        /\ wk[w].op = "delete_todo" /\ wk[w].pc = "done" /\ wk[w].status = 404
        /\ wk[w].id \in deleted /\ wk[w].id \notin Ids(todos)
        /\ Joined(graph.owns, graph.users, wk[w].cur, graph.todos, wk[w].id)
====
